---------------------------- MODULE Spec2Model ----------------------------
(***************************************************************************)
(* A model of preprocess_jumia_data.py: the per-file cleaning pipeline     *)
(* (standardize_column_names, clean_price_data, extract_attributes,        *)
(* handle_missing_and_duplicates, feature_engineering), the per-category   *)
(* output files, the combined dataset and the summary statistics.          *)
(*                                                                         *)
(* Text is a sequence of one-character strings.  Two characters have       *)
(* names: "naira" is U+20A6 (the currency sign) and "tab" is U+0009.       *)
(* A number is a normalised decimal m / 10^e.  A cell of a table is a      *)
(* missing value (NaN), a number or a text.  A table (a pandas DataFrame)  *)
(* is its column names in order, a dtype per column ("num" for int64 and   *)
(* float64, "obj" for object) and its rows in order.                       *)
(***************************************************************************)
EXTENDS Integers, Sequences, FiniteSets, TLC

VARIABLES file_paths, idx, pc, category_name, raw, df, warned,
          processed_dfs, out_dir, combined_df, summary

vars == <<file_paths, idx, pc, category_name, raw, df, warned,
          processed_dfs, out_dir, combined_df, summary>>

-----------------------------------------------------------------------------
(* Characters and the str methods the code calls.                          *)

UpperSeq == <<"A","B","C","D","E","F","G","H","I","J","K","L","M",
              "N","O","P","Q","R","S","T","U","V","W","X","Y","Z">>
LowerSeq == <<"a","b","c","d","e","f","g","h","i","j","k","l","m",
              "n","o","p","q","r","s","t","u","v","w","x","y","z">>
DigitSeq == <<"0","1","2","3","4","5","6","7","8","9">>

Range(s) == {s[i] : i \in DOMAIN s}

IsUpper(c) == c \in Range(UpperSeq)
IsLower(c) == c \in Range(LowerSeq)
IsDigit(c) == c \in Range(DigitSeq)
IsSpace(c) == c \in {" ", "tab"}
\* \w of the re module: a letter, a digit or the underscore.
IsWord(c) == IsUpper(c) \/ IsLower(c) \/ IsDigit(c) \/ c = "_"

IndexIn(seq, c) == CHOOSE i \in DOMAIN seq : seq[i] = c
ToLower(c) == IF IsUpper(c) THEN LowerSeq[IndexIn(UpperSeq, c)] ELSE c
ToUpper(c) == IF IsLower(c) THEN UpperSeq[IndexIn(LowerSeq, c)] ELSE c
DigitVal(c) == IndexIn(DigitSeq, c) - 1

Sub(s, a, b) == SubSeq(s, a, b)
StartsAt(s, i, t) == i + Len(t) - 1 <= Len(s) /\ Sub(s, i, i + Len(t) - 1) = t
\* t in s
Contains(s, t) == \E i \in 1..(Len(s) + 1) : StartsAt(s, i, t)
\* s.endswith(t)
EndsWith(s, t) == Len(s) >= Len(t) /\ StartsAt(s, Len(s) - Len(t) + 1, t)

\* s.lower()
StrLower(s) == [i \in DOMAIN s |-> ToLower(s[i])]
\* s.replace(a, b) for single characters a, b
ReplaceChar(s, a, b) == [i \in DOMAIN s |-> IF s[i] = a THEN b ELSE s[i]]
\* s.replace(a, '')
RemoveChar(s, a) == SelectSeq(s, LAMBDA c : c # a)

\* s.strip(): leading and trailing whitespace removed
StrStrip(s) ==
  IF \A i \in DOMAIN s : IsSpace(s[i]) THEN <<>>
  ELSE LET a == CHOOSE i \in DOMAIN s :
                  ~IsSpace(s[i]) /\ \A j \in 1..(i - 1) : IsSpace(s[j])
           b == CHOOSE i \in DOMAIN s :
                  ~IsSpace(s[i]) /\ \A j \in (i + 1)..Len(s) : IsSpace(s[j])
       IN Sub(s, a, b)

\* s.title(): a cased character is upper-cased when the character before it
\* is not cased (or there is none) and lower-cased otherwise.
StrTitle(s) ==
  [i \in DOMAIN s |->
     IF i > 1 /\ (IsUpper(s[i - 1]) \/ IsLower(s[i - 1]))
        THEN ToLower(s[i]) ELSE ToUpper(s[i])]

\* s.split(sep): the pieces between the occurrences of the character sep
RECURSIVE StrSplit(_, _)
StrSplit(s, sep) ==
  IF \A i \in DOMAIN s : s[i] # sep THEN <<s>>
  ELSE LET k == CHOOSE i \in DOMAIN s :
                  s[i] = sep /\ \A j \in 1..(i - 1) : s[j] # sep
       IN <<Sub(s, 1, k - 1)>> \o StrSplit(Sub(s, k + 1, Len(s)), sep)

-----------------------------------------------------------------------------
(* Numbers: m / 10^e with m not divisible by 10 unless e = 0.              *)

RECURSIVE Pow10(_)
Pow10(n) == IF n = 0 THEN 1 ELSE 10 * Pow10(n - 1)

RECURSIVE Norm(_, _)
Norm(m, e) == IF m = 0 THEN [m |-> 0, e |-> 0]
              ELSE IF e > 0 /\ m % 10 = 0 THEN Norm(m \div 10, e - 1)
              ELSE [m |-> m, e |-> e]

Max(a, b) == IF a >= b THEN a ELSE b
\* the numerator of d over 10^e, for e >= d.e
Scaled(d, e) == d.m * Pow10(e - d.e)
DecLess(a, b) == LET e == Max(a.e, b.e) IN Scaled(a, e) < Scaled(b, e)
DecAdd(a, b) == LET e == Max(a.e, b.e) IN Norm(Scaled(a, e) + Scaled(b, e), e)

RECURSIVE DigitsVal(_)
DigitsVal(s) == IF s = <<>> THEN 0
                ELSE 10 * DigitsVal(Sub(s, 1, Len(s) - 1)) + DigitVal(s[Len(s)])

NumDots(s) == Cardinality({i \in DOMAIN s : s[i] = "."})

\* float(s) for a text s of digits and dots that starts with a digit: it
\* parses with at most one dot and raises ValueError otherwise.
FloatParses(s) == NumDots(s) <= 1
ParseFloat(s) ==
  IF NumDots(s) = 0 THEN Norm(DigitsVal(s), 0)
  ELSE LET k == CHOOSE i \in DOMAIN s : s[i] = "."
       IN Norm(DigitsVal(RemoveChar(s, ".")), Len(s) - k)

\* n / d rounded to an integer, halves to even (numpy's round), for d > 0
RoundHalfEven(n, d) ==
  LET f == n \div d
      r == n - f * d
  IN IF 2 * r < d THEN f
     ELSE IF 2 * r > d THEN f + 1
     ELSE IF f % 2 = 0 THEN f ELSE f + 1

-----------------------------------------------------------------------------
(* Cells and tables.                                                       *)

NaN == [k |-> "nan", m |-> 0, e |-> 0, s |-> <<>>]
Num(d) == [k |-> "num", m |-> d.m, e |-> d.e, s |-> <<>>]
Txt(s) == [k |-> "str", m |-> 0, e |-> 0, s |-> s]
IsNull(c) == c.k = "nan"
DecOf(c) == [m |-> c.m, e |-> c.e]
IntCell(n) == Num(Norm(n, 0))

ColSet(t) == Range(t.cols)
HasCol(t, c) == c \in ColSet(t)

\* df.rename(columns={old: new})
RenameCol(t, old, new) ==
  LET nm(c) == IF c = old THEN new ELSE c
      ncols == [i \in DOMAIN t.cols |-> nm(t.cols[i])]
      oldOf(c) == IF c = new THEN old ELSE c
  IN [cols |-> ncols,
      dtype |-> [c \in Range(ncols) |-> t.dtype[oldOf(c)]],
      rows |-> [i \in DOMAIN t.rows |->
                  [c \in Range(ncols) |-> t.rows[i][oldOf(c)]]]]

\* df[c] = vals: the column is replaced in place, or appended when new
SetCol(t, c, dt, vals) ==
  LET ncols == IF HasCol(t, c) THEN t.cols ELSE Append(t.cols, c)
  IN [cols |-> ncols,
      dtype |-> [x \in Range(ncols) |-> IF x = c THEN dt ELSE t.dtype[x]],
      rows |-> [i \in DOMAIN t.rows |->
                  [x \in Range(ncols) |->
                     IF x = c THEN vals[i] ELSE t.rows[i][x]]]]

NoTable == [cols |-> <<>>, dtype |-> <<>>, rows |-> <<>>]

-----------------------------------------------------------------------------
(* Column names the code tests for.                                        *)

col_price == <<"p","r","i","c","e">>
col_product_price == <<"p","r","o","d","u","c","t","_">> \o col_price
col_price_info == col_price \o <<"_","i","n","f","o">>
col_old_price == <<"o","l","d","_">> \o col_price
col_discount_percentage ==
  <<"d","i","s","c","o","u","n","t","_","p","e","r","c","e","n","t","a","g","e">>
col_category == <<"c","a","t","e","g","o","r","y">>
col_name == <<"n","a","m","e">>
col_product_name == <<"p","r","o","d","u","c","t","_">> \o col_name
col_sizes == <<"s","i","z","e","s">>
col_extracted_size ==
  <<"e","x","t","r","a","c","t","e","d","_","s","i","z","e">>
col_brand == <<"b","r","a","n","d">>
Unknown == <<"U","n","k","n","o","w","n">>

-----------------------------------------------------------------------------
(* standardize_column_names                                                *)

\* col.lower().replace(' ', '_')
StdName(c) == ReplaceChar(StrLower(c), " ", "_")

standardize_column_names(t) ==
  LET ncols == [i \in DOMAIN t.cols |-> StdName(t.cols[i])]
      oldOf(c) == t.cols[CHOOSE i \in DOMAIN ncols : ncols[i] = c]
  IN [cols |-> ncols,
      dtype |-> [c \in Range(ncols) |-> t.dtype[oldOf(c)]],
      rows |-> [i \in DOMAIN t.rows |->
                  [c \in Range(ncols) |-> t.rows[i][oldOf(c)]]]]

-----------------------------------------------------------------------------
(* clean_price_data                                                        *)

PriceChar(c) == IsDigit(c) \/ c = "." \/ c = ","

\* re.search(r'(\d+[\d\.,]*)', s): from the first digit, the longest run of
\* digits, dots and commas; <<>> stands for no match (a match is never empty)
PriceExtract(s) ==
  IF \A i \in DOMAIN s : ~IsDigit(s[i]) THEN <<>>
  ELSE LET a == CHOOSE i \in DOMAIN s :
                  IsDigit(s[i]) /\ \A j \in 1..(i - 1) : ~IsDigit(s[j])
           b == CHOOSE i \in a..Len(s) :
                  /\ \A j \in a..i : PriceChar(s[j])
                  /\ (i = Len(s) \/ ~PriceChar(s[i + 1]))
       IN Sub(s, a, b)

\* str(x) of a float: the integer digits, a dot, the fraction digits
RECURSIVE NatDigits(_)
NatDigits(n) == IF n < 10 THEN <<DigitSeq[n + 1]>>
                ELSE NatDigits(n \div 10) \o <<DigitSeq[(n % 10) + 1]>>

RECURSIVE PadLeft(_, _)
PadLeft(s, n) == IF Len(s) >= n THEN s ELSE PadLeft(<<"0">> \o s, n)

FormatFloat(d) ==
  LET a == IF d.m < 0 THEN 0 - d.m ELSE d.m
      ip == NatDigits(a \div Pow10(d.e))
      fp == IF d.e = 0 THEN <<"0">> ELSE PadLeft(NatDigits(a % Pow10(d.e)), d.e)
  IN (IF d.m < 0 THEN <<"-">> ELSE <<>>) \o ip \o <<".">> \o fp

\* Series.astype(str), cell by cell
AsTypeStr(c) == IF IsNull(c) THEN <<"n","a","n">>
                ELSE IF c.k = "str" THEN c.s
                ELSE FormatFloat(DecOf(c))

\* lines 55 and 58 on one cell: the text float() is given, <<>> for a cell
\* the pattern does not match
PriceText(c) == RemoveChar(PriceExtract(AsTypeStr(c)), ",")
PriceCellRaises(c) == PriceText(c) # <<>> /\ ~FloatParses(PriceText(c))
PriceCell(c) == IF PriceText(c) = <<>> THEN NaN
                ELSE Num(ParseFloat(PriceText(c)))

\* line 44: product_price becomes price
RenamedPrice(t) == IF HasCol(t, col_product_price)
                   THEN RenameCol(t, col_product_price, col_price) ELSE t

\* line 48, with line 53: the columns the loop converts
price_columns(t) ==
  {c \in ColSet(t) : Contains(StrLower(c), col_price) /\ t.dtype[c] # "num"}

\* astype(float) raises ValueError on the first text it cannot parse
clean_price_raises(t0) ==
  LET t == RenamedPrice(t0)
  IN \E c \in price_columns(t) : \E i \in DOMAIN t.rows :
       PriceCellRaises(t.rows[i][c])

clean_price_data(t0) ==
  LET t == RenamedPrice(t0)
      pcs == price_columns(t)
  IN [cols |-> t.cols,
      dtype |-> [c \in ColSet(t) |-> IF c \in pcs THEN "num" ELSE t.dtype[c]],
      rows |-> [i \in DOMAIN t.rows |->
                  [c \in ColSet(t) |->
                     IF c \in pcs THEN PriceCell(t.rows[i][c])
                     ELSE t.rows[i][c]]]]

-----------------------------------------------------------------------------
(* extract_attributes                                                      *)

\* \b before position i of s (1 <= i <= Len(s) + 1)
WordBoundary(s, i) ==
  LET before == i > 1 /\ IsWord(s[i - 1])
      after == i <= Len(s) /\ IsWord(s[i])
  IN before # after

\* the alternatives of size_pattern, in the order the pattern tries them
SizeTokens == << <<"X","S">>, <<"S">>, <<"M">>, <<"L">>, <<"X","L">>,
                 <<"X","X","L">>, <<"X","X","X","L">> >>

TokenAt(s, i, t) == StartsAt(s, i, t) /\ WordBoundary(s, i + Len(t))

\* [0-9]+ followed by \b, at i: the lengths n the group can take
DigitsAt(s, i) ==
  {n \in 1..(Len(s) - i + 1) :
     /\ \A j \in i..(i + n - 1) : IsDigit(s[j])
     /\ WordBoundary(s, i + n)}

SizeMatchesAt(s, i) ==
  /\ WordBoundary(s, i)
  /\ \/ \E k \in DOMAIN SizeTokens : TokenAt(s, i, SizeTokens[k])
     \/ DigitsAt(s, i) # {}

SizeAt(s, i) ==
  IF \E k \in DOMAIN SizeTokens : TokenAt(s, i, SizeTokens[k])
  THEN SizeTokens[CHOOSE k \in DOMAIN SizeTokens :
                    /\ TokenAt(s, i, SizeTokens[k])
                    /\ \A j \in 1..(k - 1) : ~TokenAt(s, i, SizeTokens[j])]
  ELSE LET n == CHOOSE n \in DigitsAt(s, i) : \A x \in DigitsAt(s, i) : x <= n
       IN Sub(s, i, i + n - 1)

\* Series.str.extract(size_pattern) on one cell: the group of the leftmost
\* match, NaN when there is none or the cell is missing
SizeExtract(c) ==
  IF c.k # "str" \/ \A i \in DOMAIN c.s : ~SizeMatchesAt(c.s, i) THEN NaN
  ELSE LET a == CHOOSE i \in DOMAIN c.s :
                  SizeMatchesAt(c.s, i) /\ \A j \in 1..(i - 1) : ~SizeMatchesAt(c.s, j)
       IN Txt(SizeAt(c.s, a))

\* lines 79 and 81 on one cell
CleanName(c) == IF c.k = "str" THEN Txt(StrTitle(StrStrip(c.s))) ELSE NaN

\* line 97 on one cell: str.split(' ').str[0]
Brand(c) == IF c.k = "str" THEN Txt(StrSplit(c.s, " ")[1]) ELSE NaN

ColVals(t, f(_)) == [i \in DOMAIN t.rows |-> f(t.rows[i])]

\* lines 70-71
WithCategory(t, label) ==
  IF HasCol(t, col_category) THEN t
  ELSE SetCol(t, col_category, "obj", ColVals(t, LAMBDA r : Txt(label)))

\* lines 74-81
WithName(t) ==
  IF HasCol(t, col_product_name)
  THEN LET u == RenameCol(t, col_product_name, col_name)
       IN SetCol(u, col_name, "obj", ColVals(u, LAMBDA r : CleanName(r[col_name])))
  ELSE t

\* lines 84-92
WithSize(t) ==
  IF HasCol(t, col_name) /\ ~HasCol(t, col_extracted_size)
  THEN LET ex(r) == SizeExtract(r[col_name])
           val(r) == IF HasCol(t, col_sizes) /\ IsNull(ex(r))
                     THEN r[col_sizes] ELSE ex(r)
       IN SetCol(t, col_extracted_size, "obj", ColVals(t, val))
  ELSE t

\* lines 95-97
WithBrand(t) ==
  IF HasCol(t, col_name) /\ ~HasCol(t, col_brand)
  THEN SetCol(t, col_brand, "obj", ColVals(t, LAMBDA r : Brand(r[col_name])))
  ELSE t

\* the .str accessor raises AttributeError on a column that is not object
extract_raises(t) ==
  \/ HasCol(t, col_product_name) /\ t.dtype[col_product_name] # "obj"
  \/ /\ HasCol(t, col_name) /\ t.dtype[col_name] # "obj"
     /\ (~HasCol(t, col_extracted_size) \/ ~HasCol(t, col_brand))

extract_attributes(t, label) ==
  WithBrand(WithSize(WithName(WithCategory(t, label))))

-----------------------------------------------------------------------------
(* handle_missing_and_duplicates                                           *)

\* a variant that fills the numeric columns only
FillCellMut(dt, c) == IF IsNull(c) /\ dt = "num" THEN IntCell(0) ELSE c
\* lines 109-114: fillna(0) on the numeric columns, fillna('Unknown') on the
\* object columns
FillCell(dt, c) ==
  IF ~IsNull(c) THEN c
  ELSE IF dt = "num" THEN IntCell(0)
  ELSE IF dt = "obj" THEN Txt(Unknown)
  ELSE c

FillRow(t, r) == [c \in ColSet(t) |-> FillCell(t.dtype[c], r[c])]

\* line 118: drop_duplicates() keeps the first of equal rows
DropDuplicates(rows) ==
  LET keep == {i \in DOMAIN rows : \A j \in 1..(i - 1) : rows[j] # rows[i]}
      RECURSIVE Build(_)
      Build(n) == IF n = 0 THEN <<>>
                  ELSE IF n \in keep THEN Append(Build(n - 1), rows[n])
                  ELSE Build(n - 1)
  IN Build(Len(rows))

handle_missing_and_duplicates(t) ==
  [cols |-> t.cols,
   dtype |-> t.dtype,
   rows |-> DropDuplicates([i \in DOMAIN t.rows |-> FillRow(t, t.rows[i])])]

-----------------------------------------------------------------------------
(* feature_engineering                                                     *)

OldPriceMarker == <<"o","l","d"," ","p","r","i","c","e"," ","naira">>
AmountChar(c) == IsDigit(c) \/ c = ","

OldPriceMatchesAt(s, i) ==
  /\ StartsAt(s, i, OldPriceMarker)
  /\ i + Len(OldPriceMarker) <= Len(s)
  /\ AmountChar(s[i + Len(OldPriceMarker)])

\* line 135 on one cell: the group of the leftmost match of
\* r'old price ₦([\d,]+)', NaN when there is none
OldPriceExtract(c) ==
  IF c.k # "str" \/ \A i \in DOMAIN c.s : ~OldPriceMatchesAt(c.s, i) THEN NaN
  ELSE LET i0 == CHOOSE i \in DOMAIN c.s :
                   OldPriceMatchesAt(c.s, i)
                   /\ \A j \in 1..(i - 1) : ~OldPriceMatchesAt(c.s, j)
           a == i0 + Len(OldPriceMarker)
           b == CHOOSE i \in a..Len(c.s) :
                  /\ \A j \in a..i : AmountChar(c.s[j])
                  /\ (i = Len(c.s) \/ ~AmountChar(c.s[i + 1]))
       IN Txt(Sub(c.s, a, b))

\* line 136 on one cell: commas removed, to_numeric(errors='coerce')
OldPrice(c) ==
  LET x == OldPriceExtract(c)
      digits == RemoveChar(x.s, ",")
  IN IF IsNull(x) \/ digits = <<>> THEN NaN ELSE IntCell(DigitsVal(digits))

\* line 139
OldPriceValid(o) == ~IsNull(o) /\ o.m > 0

\* round(2) of a number
Round2(d) == Norm(RoundHalfEven(d.m * 100, Pow10(d.e)), 2)

\* a variant with the subtraction the other way round
DiscountMut(o, price) ==
  IF IsNull(price) THEN NaN
  ELSE Num(Norm(RoundHalfEven((price.m - o.m * Pow10(price.e)) * 10000,
                              o.m * Pow10(price.e)), 2))
\* lines 141-144 on one row: (old_price - price) / old_price * 100, rounded
\* to two decimals; NaN when the price is missing.  The quotient is exact
\* here: the rounding error of the float arithmetic is not modelled.
Discount(o, price) ==
  IF IsNull(price) THEN NaN
  ELSE Num(Norm(RoundHalfEven((o.m * Pow10(price.e) - price.m) * 10000,
                              o.m * Pow10(price.e)), 2))

FeatureApplies(t) == HasCol(t, col_price_info) /\ HasCol(t, col_price)

WithOldPrice(t) ==
  SetCol(t, col_old_price, "num", ColVals(t, LAMBDA r : OldPrice(r[col_price_info])))

MaskAny(t) == \E i \in DOMAIN t.rows : OldPriceValid(OldPrice(t.rows[i][col_price_info]))

WithDiscount(t) ==
  LET u == WithOldPrice(t)
      prior(r) == IF HasCol(t, col_discount_percentage)
                  THEN r[col_discount_percentage] ELSE NaN
      val(r) == IF OldPriceValid(r[col_old_price])
                THEN Discount(r[col_old_price], r[col_price])
                ELSE prior(r)
      rnd(c) == IF c.k = "num" THEN Num(Round2(DecOf(c))) ELSE c
  IN IF MaskAny(t)
     THEN SetCol(u, col_discount_percentage, "num", ColVals(u, LAMBDA r : rnd(val(r))))
     ELSE u

\* where the try block raises: "extract" at line 135 (the .str accessor on a
\* column that is not object), "subtract" at line 142 (a number minus a
\* text), "none" when it completes
FeatureRaises(t) ==
  IF t.dtype[col_price_info] # "obj" THEN "extract"
  ELSE IF MaskAny(t) /\ t.dtype[col_price] # "num" THEN "subtract"
  ELSE "none"

\* a variant in which old_price is assigned before the try block raises
feature_engineeringMut(t) ==
  IF ~FeatureApplies(t) THEN [df |-> t, warned |-> FALSE]
  ELSE IF FeatureRaises(t) = "none" THEN [df |-> WithDiscount(t), warned |-> FALSE]
  ELSE [df |-> WithOldPrice(t), warned |-> TRUE]
\* the table returned and whether the warning of line 146 was printed
feature_engineering(t) ==
  IF ~FeatureApplies(t) THEN [df |-> t, warned |-> FALSE]
  ELSE IF FeatureRaises(t) = "extract" THEN [df |-> t, warned |-> TRUE]
  ELSE IF FeatureRaises(t) = "subtract" THEN [df |-> WithOldPrice(t), warned |-> TRUE]
  ELSE [df |-> WithDiscount(t), warned |-> FALSE]

-----------------------------------------------------------------------------
(* load_and_inspect_data: pd.read_csv on a grid of texts.                  *)

\* a text read_csv parses as a number: digits with at most one dot
IsNumeral(s) == /\ s # <<>>
                /\ \A i \in DOMAIN s : IsDigit(s[i]) \/ s[i] = "."
                /\ NumDots(s) <= 1
                /\ \E i \in DOMAIN s : IsDigit(s[i])

\* the default na_values these alphabets can spell
NaTexts == {<<>>, <<"n","a","n">>, <<"N","a","N">>, <<"N","A">>}

\* a column is numeric when every cell that is not missing is a numeral,
\* and object otherwise; a missing cell is NaN either way
load_and_inspect_data(csv) ==
  LET pos(c) == CHOOSE i \in DOMAIN csv.header : csv.header[i] = c
      cells(c) == {csv.rows[i][pos(c)] : i \in DOMAIN csv.rows}
      dt(c) == IF \A x \in cells(c) : x \in NaTexts \/ IsNumeral(x)
               THEN "num" ELSE "obj"
      cell(c, x) == IF x \in NaTexts THEN NaN
                    ELSE IF dt(c) = "num" THEN Num(ParseFloat(x))
                    ELSE Txt(x)
  IN [cols |-> csv.header,
      dtype |-> [c \in Range(csv.header) |-> dt(c)],
      rows |-> [i \in DOMAIN csv.rows |->
                  [c \in Range(csv.header) |-> cell(c, csv.rows[i][pos(c)])]]]

-----------------------------------------------------------------------------
(* process_file: the category label and the output path.                   *)

Last(s) == s[Len(s)]
\* os.path.basename(file_path).split('_')[-1].split('.')[0]
CategoryOf(f) == StrSplit(Last(StrSplit(f, "_")), ".")[1]

DotCsv == <<".","c","s","v">>
\* f"processed_{category_name}.csv"
ProcessedPath(cat) ==
  <<"p","r","o","c","e","s","s","e","d","_">> \o cat \o DotCsv

-----------------------------------------------------------------------------
(* combine_datasets: pd.concat(dataframes, ignore_index=True)              *)

RECURSIVE Flatten(_)
Flatten(ss) == IF ss = <<>> THEN <<>> ELSE Head(ss) \o Flatten(Tail(ss))

\* the elements of s, each at its first occurrence
Dedup(s) == SelectSeq([i \in DOMAIN s |->
                         [x |-> s[i], first |-> \A j \in 1..(i - 1) : s[j] # s[i]]],
                      LAMBDA e : e.first)

FirstOccurrences(s) == LET d == Dedup(s) IN [i \in DOMAIN d |-> d[i].x]

combine_datasets(dfs) ==
  LET cols == FirstOccurrences(Flatten([k \in DOMAIN dfs |-> dfs[k].cols]))
      having(c) == {k \in DOMAIN dfs : HasCol(dfs[k], c)}
      widen(k) == [i \in DOMAIN dfs[k].rows |->
                     [c \in Range(cols) |->
                        IF HasCol(dfs[k], c) THEN dfs[k].rows[i][c] ELSE NaN]]
  IN [cols |-> cols,
      dtype |-> [c \in Range(cols) |->
                   IF \A k \in having(c) : dfs[k].dtype[c] = "num"
                   THEN "num" ELSE "obj"],
      rows |-> Flatten([k \in DOMAIN dfs |-> widen(k)])]

CombinedPath == <<"c","o","m","b","i","n","e","d","_","j","u","m","i","a","_",
                  "p","r","o","d","u","c","t","s">> \o DotCsv

-----------------------------------------------------------------------------
(* create_summary_statistics.  The summary is the rows of the table        *)
(* written, in the order their keys first occur in df; the order pandas    *)
(* writes them in (by key, or by count) is not modelled.  A mean is kept   *)
(* as the sum and the count it divides.                                    *)

\* the keys of groupby('category') and of value_counts(): the values that
\* are not missing
CategoryKeys(t) ==
  FirstOccurrences(SelectSeq([i \in DOMAIN t.rows |-> t.rows[i][col_category]],
                             LAMBDA c : ~IsNull(c)))

GroupRows(t, key) == SelectSeq(t.rows, LAMBDA r : r[col_category] = key)

RECURSIVE SumCells(_)
SumCells(cs) == IF cs = <<>> THEN Norm(0, 0)
                ELSE DecAdd(DecOf(Head(cs)), SumCells(Tail(cs)))

\* count, mean, min and max of one column over the rows of a group; a
\* missing value is skipped
Aggregate(rows, c) ==
  LET vals == SelectSeq([i \in DOMAIN rows |-> rows[i][c]], LAMBDA x : ~IsNull(x))
      least == CHOOSE x \in Range(vals) :
                 \A y \in Range(vals) : ~DecLess(DecOf(y), DecOf(x))
      most == CHOOSE x \in Range(vals) :
                \A y \in Range(vals) : ~DecLess(DecOf(x), DecOf(y))
  IN [count |-> Len(vals),
      sum |-> Num(SumCells(vals)),
      min |-> IF vals = <<>> THEN NaN ELSE least,
      max |-> IF vals = <<>> THEN NaN ELSE most]

NoAggregate == [count |-> 0, sum |-> NaN, min |-> NaN, max |-> NaN]

\* lines 200-204: the columns of agg_dict
AggColumns(t) == {c \in {col_price, col_discount_percentage} : HasCol(t, c)}

\* mean, min and max of a column of texts raise TypeError
summary_raises(t) == \E c \in AggColumns(t) : t.dtype[c] # "num"

SummaryRow(t, key) ==
  [category |-> key,
   count |-> Len(GroupRows(t, key)),
   price |-> IF HasCol(t, col_price)
             THEN Aggregate(GroupRows(t, key), col_price) ELSE NoAggregate,
   discount_percentage |->
             IF HasCol(t, col_discount_percentage)
             THEN Aggregate(GroupRows(t, key), col_discount_percentage)
             ELSE NoAggregate]

\* a variant without the grouping: a row per record
create_summary_statisticsMut(t) ==
  [i \in DOMAIN t.rows |-> SummaryRow(t, t.rows[i][col_category])]
\* lines 207-214: a row per key
create_summary_statistics(t) ==
  LET keys == CategoryKeys(t)
  IN [i \in DOMAIN keys |-> SummaryRow(t, keys[i])]

-----------------------------------------------------------------------------
(* The inputs of a run: the directory listing and the CSV files.           *)

MaxFiles == 2
MaxRows == 2

\* os.listdir(INPUT_DIR): file names; a_m.csv and b_m.csv share a category
DirEntries == {<<"a","_","m",".","c","s","v">>, <<"b","_","m",".","c","s","v">>, <<"a","_","w",".","c","s","v">>, <<"n",".","t","x","t">>}

SeqsUpTo(S, n) == UNION {[1..k -> S] : k \in 0..n}
Injective(s) == \A i, j \in DOMAIN s : s[i] = s[j] => i = j
Listings == {l \in SeqsUpTo(DirEntries, Cardinality(DirEntries)) : Injective(l)}

HeaderA == <<<<"P","r","o","d","u","c","t"," ","N","a","m","e">>, <<"P","r","o","d","u","c","t"," ","P","r","i","c","e">>, <<"P","r","i","c","e"," ","I","n","f","o">>>>
HeaderB == <<<<"n","a","m","e">>, <<"C","a","t","e","g","o","r","y">>>>
HeaderC == <<<<"P","r","i","c","e">>, <<"D","i","s","c","o","u","n","t"," ","P","e","r","c","e","n","t","a","g","e">>>>

RowsA == {<<<<"n","i","k","e"," ","X","L">>, <<"naira","1",",","5","0","0">>, <<"o","l","d"," ","p","r","i","c","e"," ","naira","2",",","0","0","0">>>>,
          <<<<>>, <<"1",".","2",".","3">>, <<"n","e","w">>>>}
RowsB == {<<<<"N","i","k","e","tab","A","i","r">>, <<"S","h","o","e","s">>>>,
          <<<<"a","d","i","d","a","s">>, <<>>>>}
RowsC == {<<<<"1","5","0","0">>, <<"2","5",".","5">>>>,
          <<<<>>, <<>>>>}

CsvOf(h, R) == {[header |-> h, rows |-> rs] : rs \in SeqsUpTo(R, MaxRows) \ {<<>>}}
CsvFiles == CsvOf(HeaderA, RowsA) \cup CsvOf(HeaderB, RowsB) \cup CsvOf(HeaderC, RowsC)

-----------------------------------------------------------------------------
(* main and process_file, one action per call.                             *)

Init ==
  /\ file_paths \in {fp \in {SelectSeq(l, LAMBDA f : EndsWith(f, DotCsv)) : l \in Listings} :
                       Len(fp) <= MaxFiles}
  /\ idx = 1
  /\ pc = IF file_paths = <<>> THEN "combine" ELSE "load"
  /\ category_name = <<>>
  /\ raw = NoTable
  /\ df = NoTable
  /\ warned = {}
  /\ processed_dfs = <<>>
  /\ out_dir = <<>>
  /\ combined_df = NoTable
  /\ summary = <<>>

\* lines 155-159
LoadStep ==
  /\ pc = "load"
  /\ \E csv \in CsvFiles :
       /\ raw' = load_and_inspect_data(csv)
       /\ df' = load_and_inspect_data(csv)
  /\ category_name' = CategoryOf(file_paths[idx])
  /\ pc' = "standardize"
  /\ UNCHANGED <<file_paths, idx, warned, processed_dfs, out_dir, combined_df, summary>>

\* line 162
StandardizeStep ==
  /\ pc = "standardize"
  /\ df' = standardize_column_names(df)
  /\ pc' = "clean"
  /\ UNCHANGED <<file_paths, idx, category_name, raw, warned, processed_dfs,
                 out_dir, combined_df, summary>>

\* line 163; a ValueError ends the run
CleanPriceStep ==
  /\ pc = "clean"
  /\ IF clean_price_raises(df)
     THEN pc' = "aborted" /\ df' = df
     ELSE pc' = "extract" /\ df' = clean_price_data(df)
  /\ UNCHANGED <<file_paths, idx, category_name, raw, warned, processed_dfs,
                 out_dir, combined_df, summary>>

\* line 164; an AttributeError ends the run
ExtractStep ==
  /\ pc = "extract"
  /\ IF extract_raises(df)
     THEN pc' = "aborted" /\ df' = df
     ELSE pc' = "handle" /\ df' = extract_attributes(df, category_name)
  /\ UNCHANGED <<file_paths, idx, category_name, raw, warned, processed_dfs,
                 out_dir, combined_df, summary>>

\* line 165
HandleStep ==
  /\ pc = "handle"
  /\ df' = handle_missing_and_duplicates(df)
  /\ pc' = "feature"
  /\ UNCHANGED <<file_paths, idx, category_name, raw, warned, processed_dfs,
                 out_dir, combined_df, summary>>

\* line 166
FeatureStep ==
  /\ pc = "feature"
  /\ df' = feature_engineering(df).df
  /\ warned' = IF feature_engineering(df).warned THEN warned \cup {idx} ELSE warned
  /\ pc' = "save"
  /\ UNCHANGED <<file_paths, idx, category_name, raw, processed_dfs,
                 out_dir, combined_df, summary>>

\* lines 169-173 and 226: the file is written (a file of the same name is
\* overwritten) and the table appended
Write(dir, path, t) ==
  [f \in DOMAIN dir \cup {path} |-> IF f = path THEN t ELSE dir[f]]

SaveStep ==
  /\ pc = "save"
  /\ out_dir' = Write(out_dir, ProcessedPath(category_name), df)
  /\ processed_dfs' = Append(processed_dfs, df)
  /\ idx' = idx + 1
  /\ pc' = IF idx < Len(file_paths) THEN "load" ELSE "combine"
  /\ raw' = NoTable
  /\ UNCHANGED <<file_paths, category_name, df, warned, combined_df, summary>>

\* line 229; pd.concat raises ValueError on an empty list
CombineStep ==
  /\ pc = "combine"
  /\ IF processed_dfs = <<>>
     THEN pc' = "aborted" /\ UNCHANGED <<combined_df, out_dir>>
     ELSE /\ pc' = "summary"
          /\ combined_df' = combine_datasets(processed_dfs)
          /\ out_dir' = Write(out_dir, CombinedPath, combine_datasets(processed_dfs))
  /\ UNCHANGED <<file_paths, idx, category_name, raw, df, warned, processed_dfs, summary>>

\* line 232
SummaryStep ==
  /\ pc = "summary"
  /\ IF summary_raises(combined_df)
     THEN pc' = "aborted" /\ UNCHANGED summary
     ELSE pc' = "done" /\ summary' = create_summary_statistics(combined_df)
  /\ UNCHANGED <<file_paths, idx, category_name, raw, df, warned, processed_dfs,
                 out_dir, combined_df>>

Next ==
  \/ LoadStep
  \/ StandardizeStep
  \/ CleanPriceStep
  \/ ExtractStep
  \/ HandleStep
  \/ FeatureStep
  \/ SaveStep
  \/ CombineStep
  \/ SummaryStep

Spec == Init /\ [][Next]_vars

-----------------------------------------------------------------------------
(* The stages on their own: each specification starts a stage on tables    *)
(* drawn from bounded sets and runs that stage.                            *)

MaxPriceLen == 3
MaxNameLen == 3
MaxAmountLen == 2

Idle(stage, t) ==
  /\ file_paths = <<>>
  /\ idx = 1
  /\ pc = stage
  /\ category_name = <<"m">>
  /\ raw = t
  /\ df = t
  /\ warned = {}
  /\ processed_dfs = <<>>
  /\ out_dir = <<>>
  /\ combined_df = NoTable
  /\ summary = <<>>

\* clean_price_data on a one-cell price column as read_csv loads it
PriceAlphabet == {"naira", "1", "5", ",", ".", " ", "a"}
ExamplePrice == <<"naira","1",",","2","0","0",".","5","0">>
PriceTexts == SeqsUpTo(PriceAlphabet, MaxPriceLen) \cup {ExamplePrice}

InitClean ==
  \E s \in PriceTexts :
    Idle("clean", load_and_inspect_data([header |-> <<col_price>>, rows |-> << <<s>> >>]))

SpecClean == InitClean /\ [][CleanPriceStep]_vars

\* extract_attributes on a one-row table with the product name in a
\* product_name or a name column, with or without a sizes column
NameAlphabet == {"a", "X", "L", "4", " ", "tab"}
ExampleXL == <<"N","i","k","e"," ","A","i","r"," ","M","a","x"," ","X","L">>
Example42 == <<"C","l","a","s","s","i","c"," ","S","h","i","r","t"," ","4","2">>
ExampleNike == <<"N","i","k","e"," ","A","i","r"," ","M","a","x">>
NameTexts == SeqsUpTo(NameAlphabet, MaxNameLen) \cup {ExampleXL, Example42, ExampleNike}
SizesTexts == {<<"M">>, <<>>}

NameCsvs ==
  {[header |-> <<h>>, rows |-> << <<s>> >>] :
     h \in {col_product_name, col_name}, s \in NameTexts}
  \cup
  {[header |-> <<h, col_sizes>>, rows |-> << <<s, z>> >>] :
     h \in {col_product_name, col_name}, s \in NameTexts, z \in SizesTexts}

InitExtract == \E csv \in NameCsvs : Idle("extract", load_and_inspect_data(csv))

SpecExtract == InitExtract /\ [][ExtractStep]_vars

\* handle_missing_and_duplicates on tables with a numeric and an object
\* column, any cell of which may be missing
HandlerRows ==
  {[c \in {col_price, col_brand} |-> IF c = col_price THEN n ELSE b] :
     n \in {NaN, IntCell(0), IntCell(15)},
     b \in {NaN, Txt(<<"a">>), Txt(Unknown)}}

HandlerTables ==
  {[cols |-> <<col_price, col_brand>>,
    dtype |-> [c \in {col_price, col_brand} |-> IF c = col_price THEN "num" ELSE "obj"],
    rows |-> rs] : rs \in SeqsUpTo(HandlerRows, MaxRows) \ {<<>>}}

InitHandle == \E t \in HandlerTables : Idle("handle", t)

SpecHandle == InitHandle /\ [][HandleStep]_vars

\* feature_engineering on its own, on tables with a price_info column of
\* texts and a numeric price column and no cell missing, as
\* handle_missing_and_duplicates leaves a table.  (In a run of main the
\* price_info column is numeric by then: see C1.)
AmountTexts == SeqsUpTo({"0", "2", ","}, MaxAmountLen)
ExamplePriceInfo == OldPriceMarker \o <<"2",",","0","0","0">>
PriceInfoTexts ==
  {a \o m \o n \o z :
     a \in {<<>>, <<"x">>},
     m \in {OldPriceMarker,
            <<"O">> \o Tail(OldPriceMarker),
            Sub(OldPriceMarker, 1, Len(OldPriceMarker) - 1)},
     n \in AmountTexts,
     z \in {<<>>, <<".","5">>}}
  \cup {ExamplePriceInfo, Unknown,
        OldPriceMarker \o <<"x"," ">> \o OldPriceMarker \o <<"2">>}

Prices == {IntCell(0), IntCell(1500), Num(Norm(199, 2)), IntCell(25)}

FeatureRows ==
  {[c \in {col_price_info, col_price} |-> IF c = col_price THEN p ELSE Txt(s)] :
     s \in PriceInfoTexts, p \in Prices}

SecondRows ==
  {[c \in {col_price_info, col_price} |-> IF c = col_price THEN p ELSE Txt(s)] :
     s \in {ExamplePriceInfo, Unknown}, p \in {IntCell(1500)}}

FeatureTables ==
  {[cols |-> <<col_price_info, col_price>>,
    dtype |-> [c \in {col_price_info, col_price} |-> IF c = col_price THEN "num" ELSE "obj"],
    rows |-> rs] :
     rs \in {<<r>> : r \in FeatureRows} \cup
            {<<r, q>> : r \in FeatureRows, q \in SecondRows}}

InitFeature == \E t \in FeatureTables : Idle("feature", t)

SpecFeature == InitFeature /\ [][FeatureStep]_vars

-----------------------------------------------------------------------------
(* The claims.  Under Spec, raw is the table as loaded for the file being  *)
(* processed; under a stage's own specification it is the table the stage  *)
(* was given.                                                              *)

\* the amount of the first 'old price <naira><amount>' in a text is
\* strictly positive
HasPositiveOldPrice(s) ==
  \E i \in DOMAIN s : \E b \in DOMAIN s :
    LET a == i + Len(OldPriceMarker)
    IN /\ StartsAt(s, i, OldPriceMarker)
       /\ a <= b
       /\ \A j \in a..b : AmountChar(s[j])
       /\ b = Len(s) \/ ~AmountChar(s[b + 1])
       /\ \A j \in 1..(i - 1) :
            ~(StartsAt(s, j, OldPriceMarker) /\ j + Len(OldPriceMarker) <= Len(s)
              /\ AmountChar(s[j + Len(OldPriceMarker)]))
       /\ DigitsVal(RemoveChar(Sub(s, a, b), ",")) > 0

Populated(t, i) ==
  HasCol(t, col_discount_percentage) /\ ~IsNull(t.rows[i][col_discount_percentage])

\* C1: in the table a file's run persists and returns, every row whose raw
\* price_info text holds a positive old price has discount_percentage =
\* (old_price - price) / old_price * 100 rounded to 2 decimals, price being
\* the row's parsed price.
C1_PipelineDiscount ==
  pc = "save" =>
    LET t == standardize_column_names(raw)
        priceCol == IF HasCol(t, col_product_price) THEN col_product_price ELSE col_price
    IN (HasCol(t, col_price_info) /\ t.dtype[col_price_info] = "obj" /\ HasCol(t, priceCol)) =>
         \A i \in DOMAIN t.rows :
           LET info == t.rows[i][col_price_info]
               price == FillCell("num", IF t.dtype[priceCol] = "num"
                                        THEN t.rows[i][priceCol]
                                        ELSE PriceCell(t.rows[i][priceCol]))
           IN (info.k = "str" /\ HasPositiveOldPrice(info.s)) =>
                \E j \in DOMAIN df.rows :
                  /\ df.rows[j][col_price] = price
                  /\ Populated(df, j)
                  /\ df.rows[j][col_discount_percentage] = Discount(OldPrice(info), price)

\* C2: after a complete run the output directory holds one processed file
\* per input file, and each input file's processed records are the content
\* of its own processed file.
C2_OneProcessedFilePerInput ==
  pc = "done" =>
    /\ Cardinality(DOMAIN out_dir \ {CombinedPath}) = Len(file_paths)
    /\ \A k \in DOMAIN file_paths :
         /\ ProcessedPath(CategoryOf(file_paths[k])) \in DOMAIN out_dir
         /\ out_dir[ProcessedPath(CategoryOf(file_paths[k]))] = processed_dfs[k]

\* q with its missing cells filled (0 in a numeric column, "Unknown" in an
\* object column) and every other cell as it was
FilledFrom(t, q, r) ==
  \A c \in ColSet(t) :
    r[c] = IF ~IsNull(q[c]) THEN q[c]
           ELSE IF t.dtype[c] = "num" THEN IntCell(0) ELSE Txt(Unknown)

\* C3: the table the Missing/Duplicate Handler returns has no missing cell:
\* each row is an input row with 0 for the missing numeric cells and
\* "Unknown" for the missing text cells and no other cell changed, and every
\* input row is there in that form.
C3_NoMissingAfterHandler ==
  pc = "feature" =>
    /\ \A i \in DOMAIN df.rows : \A c \in ColSet(df) : ~IsNull(df.rows[i][c])
    /\ ColSet(df) = ColSet(raw)
    /\ \A i \in DOMAIN df.rows : \E j \in DOMAIN raw.rows :
         FilledFrom(raw, raw.rows[j], df.rows[i])
    /\ \A j \in DOMAIN raw.rows : \E i \in DOMAIN df.rows :
         FilledFrom(raw, raw.rows[j], df.rows[i])

C3_Witness ==
  /\ pc = "feature"
  /\ \E j \in DOMAIN raw.rows : IsNull(raw.rows[j][col_price])
  /\ \E j \in DOMAIN raw.rows : IsNull(raw.rows[j][col_brand])
  /\ \E i \in DOMAIN df.rows : df.rows[i][col_brand] = Txt(Unknown)
  /\ \E i \in DOMAIN df.rows : df.rows[i][col_price] = IntCell(0)

ExampleRow ==
  [c \in {col_price_info, col_price} |->
     IF c = col_price THEN IntCell(1500) ELSE Txt(ExamplePriceInfo)]

\* C4: after the Discount Feature Deriver, a row has discount_percentage
\* populated exactly when its price_info holds a positive old price; the
\* others are unset; 'old price <naira>2,000' with price 1500 gives 25.00.
C4_PopulatedIffOldPrice ==
  pc = "save" =>
    \A i \in DOMAIN raw.rows :
      /\ Populated(df, i) <=> HasPositiveOldPrice(raw.rows[i][col_price_info].s)
      /\ raw.rows[i] = ExampleRow => df.rows[i][col_discount_percentage] = IntCell(25)

C4_Witness ==
  /\ pc = "save"
  /\ Len(raw.rows) = 2
  /\ raw.rows[1][col_price_info] = Txt(Unknown)
  /\ raw.rows[2] = ExampleRow
  /\ ~Populated(df, 1)
  /\ df.rows[2][col_discount_percentage] = IntCell(25)

CategoriesOf(t) == {t.rows[i][col_category] : i \in DOMAIN t.rows}

\* C5: the summary table has exactly one row per distinct category value of
\* the combined dataset, with aggregates or in the row-count fallback.
C5_OneSummaryRowPerCategory ==
  pc = "done" =>
    /\ \A v \in CategoriesOf(combined_df) :
         Cardinality({i \in DOMAIN summary : summary[i].category = v}) = 1
    /\ \A i \in DOMAIN summary : summary[i].category \in CategoriesOf(combined_df)

C5_Witness ==
  /\ pc = "done"
  /\ HasCol(combined_df, col_price)
  /\ Cardinality(CategoriesOf(combined_df)) >= 2
  /\ Len(combined_df.rows) > Cardinality(CategoriesOf(combined_df))
  /\ Len(summary) = Cardinality(CategoriesOf(combined_df))

NameColOf(t) == IF HasCol(t, col_product_name) THEN col_product_name ELSE col_name

\* C6: a processed record whose input supplied a product name, in a
\* product_name or a name column, has a name that is trimmed and title-cased
\* after the Attribute Extractor.
C6_NameTrimmedAndTitled ==
  pc = "handle" =>
    \A i \in DOMAIN df.rows :
      raw.rows[i][NameColOf(raw)].k = "str" =>
        /\ df.rows[i][col_name].k = "str"
        /\ StrStrip(df.rows[i][col_name].s) = df.rows[i][col_name].s
        /\ StrTitle(df.rows[i][col_name].s) = df.rows[i][col_name].s

\* C7: extracted_size is the first word-boundary-delimited size token of the
\* product name as supplied, and the row's sizes value when there is none
\* and a sizes column is present.
C7_SizeOfProductName ==
  pc = "handle" =>
    \A i \in DOMAIN df.rows :
      LET want == SizeExtract(raw.rows[i][NameColOf(raw)])
      IN /\ ~IsNull(want) => df.rows[i][col_extracted_size] = want
         /\ (IsNull(want) /\ HasCol(raw, col_sizes)) =>
              df.rows[i][col_extracted_size] = raw.rows[i][col_sizes]

\* C8: on a text cell of a price column the Price Cleaner completes, with
\* the decimal value of the first numeric substring, commas stripped, or a
\* missing value when the cell has no numeric substring.
C8_PriceCleanerCompletes ==
  /\ pc # "aborted"
  /\ pc = "extract" =>
       \A i \in DOMAIN raw.rows :
         raw.rows[i][col_price].k = "str" =>
           df.rows[i][col_price] =
             IF PriceExtract(raw.rows[i][col_price].s) = <<>> THEN NaN
             ELSE Num(ParseFloat(RemoveChar(PriceExtract(raw.rows[i][col_price].s), ",")))

\* C9: for a row with a name, brand is the first whitespace-delimited token
\* of name: not empty, without a whitespace character, and followed in name
\* by whitespace or the end.
C9_BrandFirstToken ==
  pc = "handle" =>
    \A i \in DOMAIN df.rows :
      df.rows[i][col_name].k = "str" =>
        LET n == df.rows[i][col_name].s
            b == df.rows[i][col_brand]
        IN /\ b.k = "str"
           /\ b.s # <<>>
           /\ \A j \in DOMAIN b.s : ~IsSpace(b.s[j])
           /\ \E a \in DOMAIN n :
                /\ \A j \in 1..(a - 1) : IsSpace(n[j])
                /\ StartsAt(n, a, b.s)
                /\ a + Len(b.s) > Len(n) \/ IsSpace(n[a + Len(b.s)])

\* C10: when the Discount Feature Deriver raises for a file, the failure is
\* absorbed: the step that prints the warning leaves the table as it was
\* (no discount_percentage, no old_price, nothing else changed) and goes on
\* to the save, which writes the file's table and appends it and goes on to
\* the next file or to the combination; and a finished run has every
\* file's table appended, the combined dataset and the summary.
C10_FailureAbsorbed ==
  /\ [][(idx \in warned' /\ idx \notin warned) => (df' = df /\ pc' = "save")]_vars
  /\ [][(pc = "save" /\ idx \in warned) =>
          /\ pc' \in {"load", "combine"}
          /\ processed_dfs' = Append(processed_dfs, df)
          /\ out_dir'[ProcessedPath(category_name)] = df]_vars
  /\ [](pc = "done" =>
          /\ Len(processed_dfs) = Len(file_paths)
          /\ \A k \in warned :
               /\ ~HasCol(processed_dfs[k], col_discount_percentage)
               /\ ~HasCol(processed_dfs[k], col_old_price)
          /\ combined_df = combine_datasets(processed_dfs)
          /\ out_dir[CombinedPath] = combined_df
          /\ Len(summary) >= 1)

C10_Witness ==
  /\ pc = "done"
  /\ 1 \in warned
  /\ Len(file_paths) >= 2
  /\ Len(processed_dfs) = Len(file_paths)

=============================================================================
